---- MODULE Spec2Model ----
(***************************************************************************)
(* The record store of the hotel management system (src/HMS.cpp): the      *)
(* unordered_map rooms_map of HotelManager and the handlers that book a    *)
(* room, edit a record, order food and check a customer out, and the file  *)
(* Record.DAT the store is written to when the program exits and read from *)
(* when it starts.                                                         *)
(*                                                                         *)
(* One action models one handler call from main_menu, with every value the *)
(* handler reads from std::cin drawn from a small set.  RoomData's long    *)
(* fields are 64 bits wide; the inputs of the model stay far inside the    *)
(* range in which days * 15000 and the food bill fit, so the arithmetic    *)
(* below is exact.                                                         *)
(***************************************************************************)
EXTENDS Integers, Sequences, FiniteSets, TLC

VARIABLES
    rooms_map,   \* HotelManager::rooms_map: room number -> RoomData
    out,         \* the message the last handler printed about its outcome
    cin_good,    \* std::cin is good: no extraction has failed or met EOF
    choice,      \* main_menu's local choice: the last menu choice stored
    answer,      \* history: what the last handler read at the (y/n) prompt,
                 \* "" when it read nothing there
    charged,     \* history: per booked room, the meal orders made since it
                 \* was created, [n |-> how many, sum |-> what they add up to]
    asked,       \* history: the prompts the last handler printed, in order
    billed,      \* history: the last confirmed checkout removed a record
                 \* with food charges on it
    file,        \* Record.DAT: whether it exists and the blocks in it
    pc           \* the process: "menu" in the loop of main_menu, "exited"
                 \* after main returned, "crashed" when it was ended

vars == <<rooms_map, out, cin_good, choice, answer, charged, asked, billed,
          file, pc>>

(***************************************************************************)
(* Bounds of the model and the sets the inputs are drawn from.             *)
(***************************************************************************)
\* Rooms booked at the same time.
MaxBooked == 2

\* Meal orders charged to one booking.
MaxOrders == 2

\* Room numbers typed at a prompt: the first and the last room, the two
\* sides of a band limit, and the first number outside the hotel on either
\* side.
RoomInputs == {0, 1, 50, 51, 100, 101}

\* Text typed for name, address, phone ("" is an empty line).
Texts == {"", "A"}

\* Numbers typed for the length of the stay; the code reads any long.
DaysInputs == {-1, 0, 2, 5}

\* Numbers typed for the number of people; the code reads any int.
PeopleInputs == {-1, 0, 1, 2}

\* Restaurant menu choices: 1 breakfast, 2 lunch, 3 dinner, 4 is no meal.
MealInputs == {1, 2, 3, 4}

\* Modify menu choices: 1 name, 2 address, 3 phone, 4 days, 5 is no field.
ModifyInputs == {1, 2, 3, 4, 5}

\* What Spec, the run over every room number, types for the texts, for the
\* days, for the meal and for the number of people.
HotelTexts == {"A"}

HotelDays == {2, 5}

HotelMeals == {1, 4}

HotelPeople == {2}

\* The only valid room number SpecGuest types, and an invalid one.
GuestRooms == {0, 1}

\* What SpecDisk types: the first and the last room, an empty name (the
\* address and the phone are not empty), one length of stay, and breakfast
\* for the guest of room 100.
DiskRooms == {1, 100}

DiskNames == {""}

DiskDays == {2}

DiskMeals == {1}

DiskDiners == {100}

\* Characters that can be in confirm_char when it is compared.
ConfirmChars == {"y", "Y", "n"}

(***************************************************************************)
(* RoomData and the pure parts of the handlers.                            *)
(***************************************************************************)

\* RoomData::RoomData(): room_no(0), days(0), cost(0), food_bill(0), the
\* strings empty.
RoomData ==
    [room_no |-> 0, name |-> "", address |-> "", phone |-> "", days |-> 0,
     cost |-> 0, rtype |-> "", food_bill |-> 0]

\* Faulty variants of check_room_status: the lookup left out, the upper
\* limit off by one either way, and the lower limit off by one.
check_room_status_no_find(r_no) ==
    IF r_no < 1 \/ r_no > 100 THEN 2 ELSE 0

check_room_status_upto_101(r_no) ==
    IF r_no < 1 \/ r_no > 101 THEN 2
    ELSE IF r_no \in DOMAIN rooms_map THEN 1
    ELSE 0

check_room_status_below_100(r_no) ==
    IF r_no < 1 \/ r_no >= 100 THEN 2
    ELSE IF r_no \in DOMAIN rooms_map THEN 1
    ELSE 0

check_room_status_from_0(r_no) ==
    IF r_no < 0 \/ r_no > 100 THEN 2
    ELSE IF r_no \in DOMAIN rooms_map THEN 1
    ELSE 0

\* HotelManager::check_room_status: 0 vacant, 1 booked, 2 invalid.
check_room_status(r_no) ==
    IF r_no < 1 \/ r_no > 100 THEN 2
    ELSE IF r_no \in DOMAIN rooms_map THEN 1
    ELSE 0

\* Faulty variant of the pricing chain of add_room: the first band ends
\* before room 50.
add_room_pricing_below_50(new_room) ==
    IF new_room.room_no >= 1 /\ new_room.room_no < 50
    THEN [new_room EXCEPT !.rtype = "Deluxe", !.cost = new_room.days * 10000]
    ELSE IF new_room.room_no >= 51 /\ new_room.room_no <= 80
    THEN [new_room EXCEPT !.rtype = "Executive", !.cost = new_room.days * 12500]
    ELSE IF new_room.room_no >= 81 /\ new_room.room_no <= 100
    THEN [new_room EXCEPT !.rtype = "Presidential", !.cost = new_room.days * 15000]
    ELSE new_room

\* Faulty variant of the pricing chain of add_room: the cost is the rate
\* of one day.
add_room_pricing_one_day(new_room) ==
    IF new_room.room_no >= 1 /\ new_room.room_no <= 50
    THEN [new_room EXCEPT !.rtype = "Deluxe", !.cost = 10000]
    ELSE IF new_room.room_no >= 51 /\ new_room.room_no <= 80
    THEN [new_room EXCEPT !.rtype = "Executive", !.cost = 12500]
    ELSE IF new_room.room_no >= 81 /\ new_room.room_no <= 100
    THEN [new_room EXCEPT !.rtype = "Presidential", !.cost = 15000]
    ELSE new_room

\* add_room, lines 202-211: room type and cost from the band of room_no.
\* The chain has no final else: outside the bands rtype and cost keep the
\* values they had.
add_room_pricing(new_room) ==
    IF new_room.room_no >= 1 /\ new_room.room_no <= 50
    THEN [new_room EXCEPT !.rtype = "Deluxe", !.cost = new_room.days * 10000]
    ELSE IF new_room.room_no >= 51 /\ new_room.room_no <= 80
    THEN [new_room EXCEPT !.rtype = "Executive", !.cost = new_room.days * 12500]
    ELSE IF new_room.room_no >= 81 /\ new_room.room_no <= 100
    THEN [new_room EXCEPT !.rtype = "Presidential", !.cost = new_room.days * 15000]
    ELSE new_room

\* Faulty variant of modify_days: the new days are stored and the cost is
\* left as it was.
modify_days_stale_cost(room, days) == [room EXCEPT !.days = days]

\* Faulty variant of modify_days: the food bill is reset as add_room
\* resets it.
modify_days_clears_bill(room, days) ==
    LET r == [room EXCEPT !.days = days, !.food_bill = 0] IN
    IF r.room_no >= 1 /\ r.room_no <= 50
    THEN [r EXCEPT !.cost = r.days * 10000]
    ELSE IF r.room_no >= 51 /\ r.room_no <= 80
    THEN [r EXCEPT !.cost = r.days * 12500]
    ELSE IF r.room_no >= 81 /\ r.room_no <= 100
    THEN [r EXCEPT !.cost = r.days * 15000]
    ELSE r

\* modify_days, lines 416-426: store the new days, then recompute the cost
\* from the band of the record's room_no (rtype is not touched).
modify_days(room, days) ==
    LET r == [room EXCEPT !.days = days] IN
    IF r.room_no >= 1 /\ r.room_no <= 50
    THEN [r EXCEPT !.cost = r.days * 10000]
    ELSE IF r.room_no >= 51 /\ r.room_no <= 80
    THEN [r EXCEPT !.cost = r.days * 12500]
    ELSE IF r.room_no >= 81 /\ r.room_no <= 100
    THEN [r EXCEPT !.cost = r.days * 15000]
    ELSE r

\* modify_name, modify_address, modify_phone: getline into the field.
modify_name(room, text) == [room EXCEPT !.name = text]

\* Faulty variant of modify_address: the line goes into phone.
modify_address_into_phone(room, text) == [room EXCEPT !.phone = text]

modify_address(room, text) == [room EXCEPT !.address = text]

modify_phone(room, text) == [room EXCEPT !.phone = text]

\* calculateBreakfastCost / calculateLunchCost / calculateDinnerCost.
calculateBreakfastCost(room, num_people) ==
    LET cost_per_person == 500
        added_cost == cost_per_person * num_people
    IN  [room EXCEPT !.food_bill = room.food_bill + added_cost]

calculateLunchCost(room, num_people) ==
    LET cost_per_person == 1000
        added_cost == cost_per_person * num_people
    IN  [room EXCEPT !.food_bill = room.food_bill + added_cost]

\* Faulty variant of calculateDinnerCost: the lunch price.
calculateDinnerCost_lunch_price(room, num_people) ==
    LET cost_per_person == 1000
        added_cost == cost_per_person * num_people
    IN  [room EXCEPT !.food_bill = room.food_bill + added_cost]

calculateDinnerCost(room, num_people) ==
    LET cost_per_person == 1200
        added_cost == cost_per_person * num_people
    IN  [room EXCEPT !.food_bill = room.food_bill + added_cost]

\* rooms_map[k] = room (operator[] then assignment): inserts or overwrites.
map_put(m, k, room) ==
    [x \in DOMAIN m \cup {k} |-> IF x = k THEN room ELSE m[x]]

\* Faulty variant of the erase: rooms_map.clear().
map_erase_clear(m, k) == [x \in {} |-> m[x]]

\* rooms_map.erase(it)
map_erase(m, k) == [x \in DOMAIN m \ {k} |-> m[x]]

(***************************************************************************)
(* Record.DAT.  save_data writes, for every record of rooms_map, the       *)
(* sizeof(RoomData) bytes of the RoomData object; load_data reads blocks   *)
(* of that size over a RoomData object and stores a copy under its         *)
(* room_no.  The int and long members are in the block by value.  The      *)
(* std::string members are not: the block holds the bytes of the string    *)
(* object (a pointer, the size and a small buffer) as they were in the     *)
(* process that wrote them, and a std::string whose bytes were overwritten *)
(* with them is not a valid object, so reading it is undefined.  A build   *)
(* whose short strings keep their characters inside the object and no      *)
(* pointer to them reads the text back; a build whose string object points *)
(* at its characters reads whatever is at that address in the new process, *)
(* or ends there.                                                          *)
(***************************************************************************)
\* Record.DAT does not exist.
NoFile == [exists |-> FALSE, blocks |-> {}, torn |-> FALSE]

\* The bytes of a std::string object that holds text.
string_bytes(text) == [object_of |-> text]

\* What is read through a pointer of another process.
Garbage == "?"

\* How the strings of one block read after load_data.
StringReads == {"intact", "garbage"}

\* A std::string whose bytes came from the file, read by the copy of
\* line 99.  The size is in the object by value: of an empty string no
\* character is read.
read_string(bytes, ub) ==
    IF ub = "intact" \/ bytes.object_of = ""
    THEN bytes.object_of
    ELSE Garbage

\* save_data, line 114: the bytes of one RoomData.
write_block(room) ==
    [room EXCEPT !.name = string_bytes(@), !.address = string_bytes(@),
                 !.phone = string_bytes(@), !.rtype = string_bytes(@)]

\* load_data, lines 91 and 99: the RoomData that a block gives.
read_block(block, ub) ==
    [block EXCEPT !.name = read_string(@, ub), !.address = read_string(@, ub),
                  !.phone = read_string(@, ub), !.rtype = read_string(@, ub)]

\* save_data: the file is truncated and one block per record is written.
\* The order of the blocks is the iteration order of the unordered_map,
\* which is unspecified; the records have distinct room_no, so what
\* load_data makes of the blocks does not depend on it, and the blocks are
\* kept as a set.  torn says that a part of one more block follows them.
save_data(m) ==
    [exists |-> TRUE, blocks |-> {write_block(m[k]) : k \in DOMAIN m},
     torn |-> FALSE]

\* The room numbers of the blocks of a file.
block_keys(f) == IF f.exists THEN {b.room_no : b \in f.blocks} ELSE {}

\* load_data: nothing when the file does not exist; otherwise every whole
\* block is stored under its room_no, and the loop ends at the first read
\* that does not fill a whole RoomData (the end of the file, or a part of
\* a block), keeping what it stored before.  ub says, per block, how its
\* strings read.
load_data(f, ub) ==
    [k \in block_keys(f) |->
        read_block(CHOOSE b \in f.blocks : b.room_no = k, ub[k])]

(***************************************************************************)
(* The meal charge as the specification states it (section 4.2); the       *)
(* history variable charged is kept with it, not with the code's helpers.  *)
(***************************************************************************)
meal_rate(meal) ==
    CASE meal = 1 -> 500
      [] meal = 2 -> 1000
      [] meal = 3 -> 1200
      [] OTHER -> 0

IsMeal(meal) == meal \in {1, 2, 3}

\* One more order in the history of room k.
log_order(h, k, meal, people) ==
    IF IsMeal(meal)
    THEN [h EXCEPT ![k] = [n |-> h[k].n + 1,
                           sum |-> h[k].sum + people * meal_rate(meal)]]
    ELSE h

(***************************************************************************)
(* The state after construction when no Record.DAT exists: load_data       *)
(* returns with rooms_map empty.  main_menu's choice has no initial value: *)
(* it holds any number (0 stands for the numbers that are no menu entry).  *)
(***************************************************************************)
\* What main_menu's choice can hold before anything is stored in it.
Indeterminate == {0, 1, 4, 5, 6}

Init ==
    /\ rooms_map = <<>>
    /\ out = "none"
    /\ cin_good = TRUE
    /\ choice \in Indeterminate
    /\ answer = ""
    /\ charged = <<>>
    /\ asked = <<>>
    /\ billed = FALSE
    /\ file = NoFile
    /\ pc = "menu"

(***************************************************************************)
(* Reading from std::cin.  An extraction (std::cin >> x, std::getline)     *)
(* from a stream that is not good stores nothing: x keeps the value it     *)
(* had, which for a local without an initial value is indeterminate.  No   *)
(* handler tests the stream, so once it has failed main_menu's choice      *)
(* keeps its last value and the loop calls the same handler again and      *)
(* again, each extraction leaving its target as it was.                    *)
(***************************************************************************)
\* std::cin >> x or std::getline(std::cin, x) with x holding old.
extract(old, typed) == IF cin_good THEN typed ELSE old

\* Faulty variant of main_menu: the store is written to Record.DAT on
\* every pass of the loop.
main_menu_saving(c) ==
    /\ pc = "menu"
    /\ cin_good \/ c = choice
    /\ choice' = c
    /\ file' = save_data(rooms_map)
    /\ pc' = IF c = 6 THEN "exited" ELSE pc

\* main_menu, lines 136-139 and 163: read choice, switch on it, and go
\* round again unless it is 6.  With 6 the loop ends, main returns and
\* ~HotelManager calls save_data; nothing else writes Record.DAT.
main_menu(c) ==
    /\ pc = "menu"
    /\ cin_good \/ c = choice
    /\ choice' = c
    /\ IF c = 6
       THEN /\ file' = save_data(rooms_map)
            /\ pc' = "exited"
       ELSE UNCHANGED <<file, pc>>

\* The input ends (or holds no number) where main_menu reads the choice, or
\* at the "Press Enter" std::cin.get() before it.
end_of_input ==
    /\ pc = "menu"
    /\ cin_good
    /\ cin_good' = FALSE
    /\ UNCHANGED <<rooms_map, out, choice, answer, charged, asked, billed,
                   file, pc>>

(***************************************************************************)
(* The handlers.  The parameters are what is typed at the prompts; for a   *)
(* local without an initial value they are also the indeterminate value it *)
(* holds when the stream has failed.                                       *)
(***************************************************************************)
\* HotelManager::add_room
add_room(r_no, name, address, phone, days) ==
    /\ main_menu(1)
    /\ UNCHANGED <<cin_good, billed>>
    /\ answer' = ""
    /\ LET status == check_room_status(r_no) IN
       IF status = 1
       THEN /\ out' = "already booked"
            /\ asked' = <<"room">>
            /\ UNCHANGED <<rooms_map, charged>>
       ELSE IF status = 2
       THEN /\ out' = "does not exist"
            /\ asked' = <<"room">>
            /\ UNCHANGED <<rooms_map, charged>>
       ELSE LET new_room ==
                    add_room_pricing(
                        [RoomData EXCEPT
                            !.room_no = r_no,
                            !.name = extract(@, name),
                            !.address = extract(@, address),
                            !.phone = extract(@, phone),
                            !.days = extract(@, days)])
            IN  /\ rooms_map' =
                       map_put(rooms_map, new_room.room_no,
                               [new_room EXCEPT !.food_bill = 0])
                /\ charged' = map_put(charged, r_no, [n |-> 0, sum |-> 0])
                /\ asked' = <<"room", "name", "address", "phone", "days">>
                /\ out' = "has been booked"

\* HotelManager::edit_customer_details (choice 1) and modify_customer_info
\* with modify_name / modify_address / modify_phone / modify_days; value is
\* the line or the number typed at the prompt of the chosen field.
modify_customer_info(ch, r_no, value) ==
    /\ main_menu(4)
    /\ UNCHANGED <<cin_good, billed>>
    /\ answer' = ""
    /\ UNCHANGED charged
    /\ IF r_no \notin DOMAIN rooms_map
       THEN /\ out' = "vacant or does not exist"
            /\ asked' = <<"edit", "field", "room">>
            /\ UNCHANGED rooms_map
       ELSE /\ asked' = IF ch \in {1, 2, 3, 4}
                        THEN <<"edit", "field", "room", "value">>
                        ELSE <<"edit", "field", "room">>
            /\ CASE ch = 1 ->
                      /\ rooms_map' = [rooms_map EXCEPT ![r_no] =
                                         modify_name(@, extract(@.name, value))]
                      /\ out' = "modified"
                 [] ch = 2 ->
                      /\ rooms_map' = [rooms_map EXCEPT ![r_no] =
                                         modify_address(@, extract(@.address, value))]
                      /\ out' = "modified"
                 [] ch = 3 ->
                      /\ rooms_map' = [rooms_map EXCEPT ![r_no] =
                                         modify_phone(@, extract(@.phone, value))]
                      /\ out' = "modified"
                 [] ch = 4 ->
                      /\ rooms_map' = [rooms_map EXCEPT ![r_no] =
                                         modify_days(@, extract(@.days, value))]
                      /\ out' = "modified"
                 [] OTHER ->
                      /\ out' = "Wrong Choice"
                      /\ UNCHANGED rooms_map

\* HotelManager::edit_customer_details (choice 2) and
\* delete_customer_record.  confirm_char is a local without an initial
\* value: when nothing can be read at the (y/n) prompt (entered = FALSE),
\* std::cin >> confirm_char stores nothing and the comparison reads an
\* indeterminate char, any of ConfirmChars.
delete_customer_record(r_no, entered, confirm_char) ==
    /\ main_menu(4)
    /\ IF r_no \in DOMAIN rooms_map
       THEN /\ entered => cin_good
            /\ cin_good' = entered
            /\ answer' = IF entered THEN confirm_char ELSE ""
            /\ asked' = <<"edit", "room", "confirm">>
            /\ IF confirm_char = "y" \/ confirm_char = "Y"
               THEN /\ rooms_map' = map_erase(rooms_map, r_no)
                    /\ charged' = map_erase(charged, r_no)
                    /\ billed' = (rooms_map[r_no].food_bill # 0)
                    /\ out' = "Checked Out"
               ELSE /\ out' = "Checkout cancelled"
                    /\ UNCHANGED <<rooms_map, charged, billed>>
       ELSE /\ answer' = ""
            /\ asked' = <<"edit", "room">>
            /\ out' = "vacant or does not exist"
            /\ UNCHANGED <<rooms_map, cin_good, charged, billed>>

\* Faulty variant of order_food: the record is taken with
\* rooms_map[r_no], which makes a record when there is none, in place of
\* rooms_map.find(r_no).
order_food_indexing(meal_choice, r_no, num_people) ==
    /\ main_menu(5)
    /\ UNCHANGED <<cin_good, billed>>
    /\ answer' = ""
    /\ asked' = <<"meal", "room", "people">>
    /\ LET m == IF r_no \in DOMAIN rooms_map
                THEN rooms_map
                ELSE map_put(rooms_map, r_no, RoomData)
           h == IF r_no \in DOMAIN charged
                THEN charged
                ELSE map_put(charged, r_no, [n |-> 0, sum |-> 0])
       IN  /\ charged' = log_order(h, r_no, meal_choice, num_people)
           /\ CASE meal_choice = 1 ->
                     /\ rooms_map' = [m EXCEPT ![r_no] =
                                        calculateBreakfastCost(@, num_people)]
                     /\ out' = "added to the bill"
                [] meal_choice = 2 ->
                     /\ rooms_map' = [m EXCEPT ![r_no] =
                                        calculateLunchCost(@, num_people)]
                     /\ out' = "added to the bill"
                [] meal_choice = 3 ->
                     /\ rooms_map' = [m EXCEPT ![r_no] =
                                        calculateDinnerCost(@, num_people)]
                     /\ out' = "added to the bill"
                [] OTHER ->
                     /\ out' = "Invalid choice for meal"
                     /\ rooms_map' = m

\* Faulty variant of order_food: the switch has no default, a choice that
\* is no meal is charged as dinner.
order_food_default_dinner(meal_choice, r_no, num_people) ==
    /\ main_menu(5)
    /\ UNCHANGED <<cin_good, billed>>
    /\ answer' = ""
    /\ IF r_no \notin DOMAIN rooms_map
       THEN /\ out' = "vacant or does not exist"
            /\ asked' = <<"meal", "room">>
            /\ UNCHANGED <<rooms_map, charged>>
       ELSE /\ charged' = log_order(charged, r_no, meal_choice, num_people)
            /\ asked' = <<"meal", "room", "people">>
            /\ CASE meal_choice = 1 ->
                      /\ rooms_map' = [rooms_map EXCEPT ![r_no] =
                                         calculateBreakfastCost(@, num_people)]
                      /\ out' = "added to the bill"
                 [] meal_choice = 2 ->
                      /\ rooms_map' = [rooms_map EXCEPT ![r_no] =
                                         calculateLunchCost(@, num_people)]
                      /\ out' = "added to the bill"
                 [] OTHER ->
                      /\ rooms_map' = [rooms_map EXCEPT ![r_no] =
                                         calculateDinnerCost(@, num_people)]
                      /\ out' = "added to the bill"

\* HotelManager::order_food
order_food(meal_choice, r_no, num_people) ==
    /\ main_menu(5)
    /\ UNCHANGED <<cin_good, billed>>
    /\ answer' = ""
    /\ IF r_no \notin DOMAIN rooms_map
       THEN /\ out' = "vacant or does not exist"
            /\ asked' = <<"meal", "room">>
            /\ UNCHANGED <<rooms_map, charged>>
       ELSE /\ charged' = log_order(charged, r_no, meal_choice, num_people)
            /\ asked' = <<"meal", "room", "people">>
            /\ CASE meal_choice = 1 ->
                      /\ rooms_map' = [rooms_map EXCEPT ![r_no] =
                                         calculateBreakfastCost(@, num_people)]
                      /\ out' = "added to the bill"
                 [] meal_choice = 2 ->
                      /\ rooms_map' = [rooms_map EXCEPT ![r_no] =
                                         calculateLunchCost(@, num_people)]
                      /\ out' = "added to the bill"
                 [] meal_choice = 3 ->
                      /\ rooms_map' = [rooms_map EXCEPT ![r_no] =
                                         calculateDinnerCost(@, num_people)]
                      /\ out' = "added to the bill"
                 [] OTHER ->
                      /\ out' = "Invalid choice for meal"
                      /\ UNCHANGED rooms_map

(***************************************************************************)
(* The end of the process and the start of the next one.                   *)
(***************************************************************************)
\* main_menu with choice 6: the loop ends, main returns and ~HotelManager
\* writes the store to Record.DAT.  rooms_map keeps the store the process
\* had when it ended.
exit_program ==
    /\ main_menu(6)
    /\ out' = "Goodbye"
    /\ asked' = <<>>
    /\ answer' = ""
    /\ UNCHANGED <<rooms_map, cin_good, charged, billed>>

\* The same, with the process ended from outside while the loop of
\* save_data is writing: the file was truncated when it was opened, the
\* blocks of the records in done are written, and a part of the next one.
interrupted_save(done) ==
    /\ pc = "menu"
    /\ cin_good \/ choice = 6
    /\ done \subseteq DOMAIN rooms_map
    /\ done # DOMAIN rooms_map
    /\ choice' = 6
    /\ file' = [exists |-> TRUE,
                blocks |-> {write_block(rooms_map[k]) : k \in done},
                torn |-> TRUE]
    /\ pc' = "crashed"
    /\ out' = "Goodbye"
    /\ asked' = <<>>
    /\ answer' = ""
    /\ UNCHANGED <<rooms_map, cin_good, charged, billed>>

\* main, line 536: a new process; HotelManager() calls load_data.  c is
\* what main_menu's choice holds, ub how the strings of each block read,
\* and crash says that the read of a string, or the destructor of
\* temp_room, whose strings hold the bytes of the last block read, ends
\* the process.
startup(c, ub, crash) ==
    /\ pc \in {"exited", "crashed"}
    /\ cin_good' = TRUE
    /\ choice' = c
    /\ answer' = ""
    /\ asked' = <<>>
    /\ UNCHANGED <<file, billed>>
    /\ IF crash
       THEN /\ file.exists
            /\ file.blocks # {} \/ file.torn
            /\ pc' = "crashed"
            /\ rooms_map' = <<>>
            /\ out' = "crashed"
            /\ UNCHANGED charged
       ELSE /\ pc' = "menu"
            /\ rooms_map' = load_data(file, ub)
            /\ out' = IF file.exists
                      THEN "Data loaded successfully"
                      ELSE "No existing record file"
            /\ charged' = [k \in block_keys(file) |-> charged[k]]

(***************************************************************************)
(* One pass of the loop of main_menu for the choices 1 (book), 4 (edit: 1  *)
(* modify, 2 check out) and 5 (order food), with the sets the typed values *)
(* are drawn from.  The guards keep the run inside the bounds: at most     *)
(* MaxBooked rooms are booked at once and at most MaxOrders meals are      *)
(* charged to one booking.                                                 *)
(***************************************************************************)
Book(RS, NS, AS, PS, DS) ==
    \E r_no \in RS, name \in NS, address \in AS, phone \in PS, days \in DS :
        /\ r_no \in 1..100 \ DOMAIN rooms_map
               => Cardinality(DOMAIN rooms_map) < MaxBooked
        /\ add_room(r_no, name, address, phone, days)

Edit(CS, RS, TS, DS) ==
    \E ch \in CS, r_no \in RS :
        \E value \in (IF ch = 4 THEN DS ELSE TS) :
            modify_customer_info(ch, r_no, value)

CheckOut(RS) ==
    \E r_no \in RS, entered \in BOOLEAN, confirm_char \in ConfirmChars :
        delete_customer_record(r_no, entered, confirm_char)

OrderFood(MS, RS, NS) ==
    \E meal_choice \in MS, r_no \in RS, num_people \in NS :
        /\ (r_no \in DOMAIN rooms_map /\ IsMeal(meal_choice))
               => charged[r_no].n < MaxOrders
        /\ order_food(meal_choice, r_no, num_people)

(***************************************************************************)
(* Spec: the whole hotel.  Every room number of RoomInputs, and few values *)
(* for what a record holds.                                                *)
(***************************************************************************)
Next ==
    \/ Book(RoomInputs, HotelTexts, HotelTexts, HotelTexts, HotelDays)
    \/ Edit({4, 5}, RoomInputs, HotelTexts, HotelDays)
    \/ CheckOut(RoomInputs)
    \/ OrderFood(HotelMeals, RoomInputs, HotelPeople)
    \/ end_of_input

Spec == Init /\ [][Next]_vars

(***************************************************************************)
(* SpecGuest: one guest at a time in room 1 (0 is the invalid number),     *)
(* with every value of the input sets for what the record holds.           *)
(***************************************************************************)
NextGuest ==
    \/ Book(GuestRooms, Texts, Texts, Texts, DaysInputs)
    \/ Edit(ModifyInputs, GuestRooms, Texts, DaysInputs)
    \/ CheckOut(GuestRooms)
    \/ OrderFood(MealInputs, GuestRooms, PeopleInputs)
    \/ end_of_input

SpecGuest == Init /\ [][NextGuest]_vars

(***************************************************************************)
(* SpecDisk: the process ends and starts again.  Rooms 1 and 100, with     *)
(* few values for what a record holds.                                     *)
(***************************************************************************)
Start ==
    \E c \in Indeterminate, ub \in [block_keys(file) -> StringReads],
       crash \in BOOLEAN :
        startup(c, ub, crash)

InterruptedSave == \E done \in SUBSET DOMAIN rooms_map : interrupted_save(done)

NextDisk ==
    \/ Book(DiskRooms, DiskNames, HotelTexts, HotelTexts, DiskDays)
    \/ Edit({4, 5}, DiskRooms, HotelTexts, DiskDays)
    \/ CheckOut(DiskRooms)
    \/ OrderFood(DiskMeals, DiskDiners, HotelPeople)
    \/ end_of_input
    \/ exit_program
    \/ InterruptedSave
    \/ Start

SpecDisk == Init /\ [][NextDisk]_vars

(***************************************************************************)
(* What the specification says, in its own terms.                          *)
(***************************************************************************)
\* Section 4.2: the per-day rate and the room type of a room number.
Rate(room_no) ==
    CASE room_no \in 1..50 -> 10000
      [] room_no \in 51..80 -> 12500
      [] room_no \in 81..100 -> 15000

RoomType(room_no) ==
    CASE room_no \in 1..50 -> "Deluxe"
      [] room_no \in 51..80 -> "Executive"
      [] room_no \in 81..100 -> "Presidential"

\* Section 7: the failures, as the messages the handlers print for them.
RoomOccupied == "already booked"

RoomInvalid == "does not exist"

NotFound == "vacant or does not exist"

\* A record as add_room builds it before pricing.
Fresh(room_no, days) == [RoomData EXCEPT !.room_no = room_no, !.days = days]

\* Some step of add_room in Spec with room number r_no typed.
BookAttempt(r_no) ==
    \E name \in HotelTexts, address \in HotelTexts, phone \in HotelTexts,
       days \in HotelDays :
        add_room(r_no, name, address, phone, days)

\* Some step of modify_customer_info or order_food in Spec.
EditOrOrder ==
    \/ \E ch \in {4, 5}, r_no \in RoomInputs :
         \E value \in (IF ch = 4 THEN HotelDays ELSE HotelTexts) :
            modify_customer_info(ch, r_no, value)
    \/ \E meal_choice \in HotelMeals, r_no \in RoomInputs,
          num_people \in HotelPeople :
            order_food(meal_choice, r_no, num_people)

\* Some step of delete_customer_record with room number r_no typed.
CheckOutAttempt(r_no) ==
    \E entered \in BOOLEAN, confirm_char \in ConfirmChars :
        delete_customer_record(r_no, entered, confirm_char)

Affirmative == {"y", "Y"}

\* Some step of modify_customer_info with room number r_no typed, for
\* every field choice and every value SpecGuest types.
EditAttempt(r_no) ==
    \E ch \in ModifyInputs :
        \E value \in (IF ch = 4 THEN DaysInputs ELSE Texts) :
            modify_customer_info(ch, r_no, value)

\* Some step of order_food with room number r_no typed, for every meal
\* choice and number of people SpecGuest types.
OrderAttempt(r_no) ==
    \E meal_choice \in MealInputs, num_people \in PeopleInputs :
        order_food(meal_choice, r_no, num_people)

(***************************************************************************)
(* C1.  From the empty store, every booked record has                      *)
(* cost = days * rate(room_no), with rate 10000 for rooms 1..50, 12500 for *)
(* 51..80 and 15000 for 81..100; add_room prices every room number 1..100  *)
(* that way and modify_days reprices it that way (the two are pure, so     *)
(* they are tried on all of 1..100 where the store is empty).              *)
(***************************************************************************)
C1_RoomCost ==
    /\ \A k \in DOMAIN rooms_map :
          /\ rooms_map[k].room_no \in 1..100
          /\ rooms_map[k].cost = rooms_map[k].days * Rate(rooms_map[k].room_no)
    /\ rooms_map = <<>> =>
          \A r \in 1..100 : \A d \in DaysInputs :
             /\ add_room_pricing(Fresh(r, d)).cost = d * Rate(r)
             /\ modify_days(add_room_pricing(Fresh(r, 2)), d).cost = d * Rate(r)

\* Room 51 booked and its days changed to 5: the cost is 5 * 12500.
C1_Witness ==
    /\ cin_good
    /\ out = "modified"
    /\ 51 \in DOMAIN rooms_map
    /\ rooms_map[51].days = 5
    /\ rooms_map[51].cost = 62500

(***************************************************************************)
(* C2.  A step of add_room for a room number that has a record prints the  *)
(* room-occupied message and leaves the store as it was.                   *)
(***************************************************************************)
C2_OccupiedUnchanged ==
    [][\A r_no \in RoomInputs :
          (r_no \in DOMAIN rooms_map /\ BookAttempt(r_no))
              => (out' = RoomOccupied /\ rooms_map' = rooms_map)]_vars

\* A booking was refused as occupied while another room was booked too.
C2_Witness ==
    /\ cin_good
    /\ out = RoomOccupied
    /\ Cardinality(DOMAIN rooms_map) = 2

(***************************************************************************)
(* C3.  A step of add_room for a room number outside 1..100 prints the     *)
(* room-invalid message, which is not the room-occupied one, and leaves    *)
(* the store as it was.                                                    *)
(***************************************************************************)
C3_InvalidUnchanged ==
    [][\A r_no \in RoomInputs \ (1..100) :
          BookAttempt(r_no)
              => /\ out' = RoomInvalid
                 /\ out' # RoomOccupied
                 /\ rooms_map' = rooms_map]_vars

\* A booking was refused as invalid with a room booked.
C3_Witness ==
    /\ cin_good
    /\ out = RoomInvalid
    /\ rooms_map # <<>>

(***************************************************************************)
(* C4.  The food_bill of a booked record is the sum, over the meal orders  *)
(* made since the record was created, of people * meal_rate(meal), with    *)
(* breakfast 500, lunch 1000 and dinner 1200.                              *)
(***************************************************************************)
C4_FoodBillIsSum ==
    \A k \in DOMAIN rooms_map :
        /\ k \in DOMAIN charged
        /\ rooms_map[k].food_bill = charged[k].sum

\* Room 1 after two orders that add up to 2200 (breakfast for 2, dinner
\* for 1).
C4_Witness ==
    /\ cin_good
    /\ 1 \in DOMAIN rooms_map
    /\ charged[1].n = 2
    /\ rooms_map[1].food_bill = 2200
    /\ out = "added to the bill"

(***************************************************************************)
(* C5.  The food_bill of a booked record is never negative and no step     *)
(* lowers it while the record stays in the store.                          *)
(***************************************************************************)
C5_FoodBillNeverDecreases ==
    [][\A k \in DOMAIN rooms_map' :
          /\ rooms_map'[k].food_bill >= 0
          /\ k \in DOMAIN rooms_map
                => rooms_map'[k].food_bill >= rooms_map[k].food_bill]_vars

(***************************************************************************)
(* C6.  A step of delete_customer_record changes the store only if 'y' or  *)
(* 'Y' was typed at the confirmation prompt.                               *)
(***************************************************************************)
C6_CheckoutOnlyConfirmed ==
    [][\A r_no \in RoomInputs :
          CheckOutAttempt(r_no)
              => (answer' \in Affirmative \/ rooms_map' = rooms_map)]_vars

(***************************************************************************)
(* C7.  check_room_status is 2 (Invalid) exactly for the numbers outside   *)
(* 1..100, 1 (Booked) exactly for the numbers of 1..100 with a record and  *)
(* 0 (Vacant) for the others.                                              *)
(***************************************************************************)
C7_StatusTotal ==
    \A r_no \in -1..102 :
        /\ check_room_status(r_no) \in {0, 1, 2}
        /\ check_room_status(r_no) = 2 <=> r_no \notin 1..100
        /\ check_room_status(r_no) = 1
               <=> (r_no \in 1..100 /\ r_no \in DOMAIN rooms_map)
        /\ check_room_status(r_no) = 0
               <=> (r_no \in 1..100 /\ r_no \notin DOMAIN rooms_map)

\* Room 100 is booked, room 1 is vacant, 0 and 101 are invalid.
C7_Witness ==
    /\ cin_good
    /\ check_room_status(100) = 1
    /\ check_room_status(1) = 0
    /\ check_room_status(0) = 2
    /\ check_room_status(101) = 2

(***************************************************************************)
(* C8.  Vacant --create--> Booked --remove--> Vacant: booking a vacant     *)
(* valid room makes it Booked (also after a checkout), a Booked room stays *)
(* Booked under every edit and food order, and it leaves Booked only by a  *)
(* checkout confirmed with 'y' or 'Y', which makes it Vacant.              *)
(***************************************************************************)
C8_StatusTransitions ==
    [][\A r_no \in RoomInputs \cap (1..100) :
          /\ (check_room_status(r_no) = 0 /\ BookAttempt(r_no))
                => check_room_status(r_no)' = 1
          /\ (check_room_status(r_no) = 1 /\ EditOrOrder)
                => check_room_status(r_no)' = 1
          /\ (check_room_status(r_no) = 1 /\ check_room_status(r_no)' # 1)
                => /\ check_room_status(r_no)' = 0
                   /\ CheckOutAttempt(r_no)
                   /\ answer' \in Affirmative]_vars

(***************************************************************************)
(* C9.  From the empty store, every key of the store is in 1..100 and the  *)
(* record under key k has room_no = k: one record per room number, and a   *)
(* record's room_no is the same in every state.                            *)
(***************************************************************************)
C9_KeyIsRoomNo ==
    \A k \in DOMAIN rooms_map :
        /\ k \in 1..100
        /\ rooms_map[k].room_no = k

\* Rooms 1 and 100 are booked and the last step edited a record.
C9_Witness ==
    /\ cin_good
    /\ DOMAIN rooms_map = {1, 100}
    /\ out = "modified"

C11_NotFoundUnchanged ==
    [][choice' \in {4, 5} =>
        \A r_no \in GuestRooms \ DOMAIN rooms_map :
          (\/ EditAttempt(r_no)
           \/ OrderAttempt(r_no)
           \/ CheckOutAttempt(r_no))
              => /\ out' = NotFound
                 /\ rooms_map' = rooms_map
                 /\ r_no \notin DOMAIN rooms_map']_vars

\* A food order for room 0 was refused while room 1 was booked with
\* charges on it.
C11_Witness ==
    /\ cin_good
    /\ out = NotFound
    /\ asked = <<"meal", "room">>
    /\ 1 \in DOMAIN rooms_map
    /\ rooms_map[1].food_bill # 0

(***************************************************************************)
(* C12.  Round trip: for every store the operations reach, load_data of    *)
(* what save_data writes gives the same room numbers and, field for field, *)
(* the same records, however the strings of the blocks read.               *)
(***************************************************************************)
C12_RoundTrip ==
    \A ub \in [DOMAIN rooms_map -> StringReads] :
        load_data(save_data(rooms_map), ub) = rooms_map

(***************************************************************************)
(* C13.  When the program exits, Record.DAT holds exactly the blocks of    *)
(* the records of the store at that moment, whatever it held before; and   *)
(* the start that follows the exit loads exactly the store as it was at    *)
(* the exit.                                                               *)
(***************************************************************************)
C13_ExitThenStart ==
    [][/\ (pc = "menu" /\ pc' = "exited")
            => /\ file' = save_data(rooms_map)
               /\ block_keys(file') = DOMAIN rooms_map
       /\ (pc = "exited" /\ pc' = "menu")
            => rooms_map' = rooms_map]_vars

(***************************************************************************)
(* C14.  A start from a Record.DAT that ends in the middle of a block      *)
(* leaves the store empty, as a start without Record.DAT does: no record   *)
(* of the file is in it, not even one of a whole block.                    *)
(***************************************************************************)
C14_TornFileEmptyStore ==
    [][(file.torn /\ pc # "menu" /\ pc' = "menu")
          => rooms_map' = <<>>]_vars

(***************************************************************************)
(* C15.  A step of order_food asks for the room number first: for a room   *)
(* number without a record it prints the not-found message and has asked   *)
(* for nothing else, and for a booked room it asks for the meal and for    *)
(* the number of people after the room number.                             *)
(***************************************************************************)
C15_RoomAskedFirst ==
    [][\A r_no \in GuestRooms :
          OrderAttempt(r_no)
              => IF r_no \in DOMAIN rooms_map
                 THEN asked' = <<"room", "meal", "people">>
                 ELSE out' = NotFound /\ asked' = <<"room">>]_vars

(***************************************************************************)
(* C16.  Every booked record has days >= 1.                                *)
(***************************************************************************)
C16_DaysPositive ==
    \A k \in DOMAIN rooms_map : rooms_map[k].days >= 1

(***************************************************************************)
(* C17.  Record.DAT changes only in the step that ends the process after   *)
(* the exit choice: no pass of the loop of main_menu with another choice   *)
(* (book, edit, check out, order food) and no start changes it, and the    *)
(* exit writes the store of that moment.                                   *)
(***************************************************************************)
C17_FileOnlyAtExit ==
    [][/\ file' # file => (pc = "menu" /\ choice' = 6 /\ pc' # "menu")
       /\ (pc = "menu" /\ pc' = "menu") => file' = file
       /\ (pc = "menu" /\ pc' = "exited") => file' = save_data(rooms_map)
      ]_vars

\* A later process: Record.DAT holds room 100 with a food bill of 1000,
\* and in the store room 100 has been charged more and room 1 has just
\* been booked.
C17_Witness ==
    /\ pc = "menu"
    /\ cin_good
    /\ out = "has been booked"
    /\ block_keys(file) = {100}
    /\ \A b \in file.blocks : b.food_bill = 1000
    /\ DOMAIN rooms_map = {1, 100}
    /\ rooms_map[100].food_bill = 2000

(***************************************************************************)
(* C18.  A step of modify_customer_info with field choice 4 (days) for a   *)
(* booked room changes only days and cost of that record; room 55 booked   *)
(* for 2 days is Executive with cost 25000, and with days set to 5 its     *)
(* cost is 62500 and nothing else of it differs.                           *)
(***************************************************************************)
C18_DaysEditFrame ==
    [][\A r_no \in RoomInputs :
          (/\ r_no \in DOMAIN rooms_map
           /\ \E value \in HotelDays : modify_customer_info(4, r_no, value))
              => /\ r_no \in DOMAIN rooms_map'
                 /\ rooms_map' =
                       [rooms_map EXCEPT ![r_no] =
                           [@ EXCEPT !.days = rooms_map'[r_no].days,
                                     !.cost = rooms_map'[r_no].cost]]
                 /\ LET booked == add_room_pricing(Fresh(55, 2)) IN
                       /\ booked.rtype = "Executive"
                       /\ booked.cost = 25000
                       /\ modify_days(booked, 5) =
                             [booked EXCEPT !.days = 5, !.cost = 62500]]_vars

\* Room 51, with a food bill, after its days were changed from 2 to 5.
C18_Witness ==
    /\ cin_good
    /\ out = "modified"
    /\ asked = <<"edit", "field", "room", "value">>
    /\ 51 \in DOMAIN rooms_map
    /\ rooms_map[51].days = 5
    /\ rooms_map[51].cost = 62500
    /\ rooms_map[51].rtype = "Executive"
    /\ rooms_map[51].food_bill = 1000

(***************************************************************************)
(* C19.  A step of modify_customer_info with field choice 1 (name),        *)
(* 2 (address) or 3 (phone) for a booked room changes at most that field   *)
(* of that record.                                                         *)
(***************************************************************************)
C19_TextEditFrame ==
    [][choice' = 4 =>
        \A r_no \in GuestRooms, ch \in {1, 2, 3} :
          (/\ r_no \in DOMAIN rooms_map
           /\ \E value \in Texts : modify_customer_info(ch, r_no, value))
              => /\ r_no \in DOMAIN rooms_map'
                 /\ LET old == rooms_map[r_no]
                        new == rooms_map'[r_no]
                    IN  new = CASE ch = 1 -> [old EXCEPT !.name = new.name]
                                [] ch = 2 -> [old EXCEPT !.address = new.address]
                                [] ch = 3 -> [old EXCEPT !.phone = new.phone]
      ]_vars

\* Room 1, with a food bill, booked with address "A" and no phone, after
\* its address was changed to an empty line.
C19_Witness ==
    /\ cin_good
    /\ out = "modified"
    /\ 1 \in DOMAIN rooms_map
    /\ rooms_map[1].name = "A"
    /\ rooms_map[1].address = ""
    /\ rooms_map[1].phone = ""
    /\ rooms_map[1].days = 5
    /\ rooms_map[1].food_bill = 500

(***************************************************************************)
(* C20.  A step of add_room that books a vacant room, with the input read  *)
(* as typed, makes the record of the typed name, address, phone and days,  *)
(* with the cost of those days and food_bill 0, also when the room had a   *)
(* record with charges before.                                             *)
(***************************************************************************)
C20_RebookedFresh ==
    [][(cin_good /\ out' = "has been booked") =>
        \A r_no \in GuestRooms, name \in Texts, address \in Texts,
           phone \in Texts, days \in DaysInputs :
          add_room(r_no, name, address, phone, days)
              => /\ r_no \in DOMAIN rooms_map'
                 /\ rooms_map'[r_no] =
                       [room_no |-> r_no, name |-> name, address |-> address,
                        phone |-> phone, days |-> days,
                        cost |-> days * Rate(r_no), rtype |-> RoomType(r_no),
                        food_bill |-> 0]]_vars

\* Room 1 was booked again, for 5 days, after the checkout of a record
\* of room 1 that had food charges.
C20_Witness ==
    /\ cin_good
    /\ billed
    /\ out = "has been booked"
    /\ 1 \in DOMAIN rooms_map
    /\ rooms_map[1].name = "A"
    /\ rooms_map[1].days = 5
    /\ rooms_map[1].cost = 50000
    /\ rooms_map[1].food_bill = 0

(***************************************************************************)
(* C21.  A step of add_room, modify_customer_info, order_food or           *)
(* delete_customer_record with room number r_no typed leaves every other   *)
(* room number as it was: in the store or not, and with the same record.   *)
(***************************************************************************)
C21_OtherRoomsUntouched ==
    [][rooms_map' # rooms_map =>
        \A r_no \in RoomInputs :
          (\/ BookAttempt(r_no)
           \/ \E ch \in {4, 5} :
                 \E value \in (IF ch = 4 THEN HotelDays ELSE HotelTexts) :
                    modify_customer_info(ch, r_no, value)
           \/ \E meal_choice \in HotelMeals, num_people \in HotelPeople :
                 order_food(meal_choice, r_no, num_people)
           \/ CheckOutAttempt(r_no))
              => \A k \in (DOMAIN rooms_map \cup DOMAIN rooms_map') \ {r_no} :
                    /\ k \in DOMAIN rooms_map
                    /\ k \in DOMAIN rooms_map'
                    /\ rooms_map'[k] = rooms_map[k]]_vars

\* Rooms 1 and 100 are booked, room 1 was checked out and booked again
\* for other days, and room 100 has the days and the food bill it had.
C21_Witness ==
    /\ cin_good
    /\ billed
    /\ out = "has been booked"
    /\ DOMAIN rooms_map = {1, 100}
    /\ rooms_map[1].days = 5
    /\ rooms_map[1].food_bill = 0
    /\ rooms_map[100].days = 2
    /\ rooms_map[100].food_bill = 2000

(***************************************************************************)
(* C22.  A step of order_food for a booked room with a meal choice that is *)
(* not 1, 2 or 3, and a step of modify_customer_info for a booked room     *)
(* with a field choice that is not 1, 2, 3 or 4, leave the store as it     *)
(* was.                                                                    *)
(***************************************************************************)
C22_InvalidChoiceUnchanged ==
    [][choice' \in {4, 5} =>
        \A r_no \in GuestRooms \cap DOMAIN rooms_map :
          (\/ \E meal_choice \in MealInputs \ {1, 2, 3},
                 num_people \in PeopleInputs :
                    order_food(meal_choice, r_no, num_people)
           \/ \E ch \in ModifyInputs \ {1, 2, 3, 4}, value \in Texts :
                    modify_customer_info(ch, r_no, value))
              => rooms_map' = rooms_map]_vars

\* A food order for room 1, which has a food bill, was refused for its
\* meal choice.
C22_Witness ==
    /\ cin_good
    /\ out = "Invalid choice for meal"
    /\ asked = <<"meal", "room", "people">>
    /\ 1 \in DOMAIN rooms_map
    /\ rooms_map[1].food_bill = 1200

====
